---- MODULE Spec2Model ----
(***************************************************************************)
(* restfs: a directory tree served over HTTP (GET / PUT / DELETE) with     *)
(* soft deletion.  DELETE writes a tombstone file next to the object, GET  *)
(* and directory listings hide objects that are not newer than their       *)
(* tombstone, and one background goroutine (gc.loop) walks the tree and    *)
(* physically removes what the tombstones settle.                          *)
(*                                                                         *)
(* The model is of the current version of main.go (the second package      *)
(* clause of the file, lines 122-432).  A path is the sequence of its      *)
(* tokens: names, "/" separators and the tombstone suffix, so that         *)
(* fullpath + tombstone is Append, strings.HasSuffix looks at the last     *)
(* token and name[:len(name)-len(tombstone)] drops it.  File contents are  *)
(* sequences of bytes.  Modification times are readings of one clock that  *)
(* never runs backwards and that several operations may read at the same   *)
(* value (the filesystem's timestamp granularity).                         *)
(*                                                                         *)
(* Request handlers are atomic steps; the GC pass is split at its system   *)
(* calls (the walk's lstat of an entry, os.Stat of the guarded object,     *)
(* os.Remove of the object, os.Remove of the tombstone), each of which     *)
(* may fail with an I/O error.                                             *)
(***************************************************************************)
EXTENDS Integers, Sequences, FiniteSets, TLC

VARIABLES
    fs,      \* the data directory: path -> [kind, mtime, data]
    clock,   \* the current filesystem time
    invoke,  \* number of signals buffered in the channel gc.invoke
    gc,      \* state of each gc.loop goroutine
    resp,    \* the HTTP response written by the step just taken (NoResp otherwise)
    hist,    \* per leaf: what the requests did to it since GC last touched it
    snap,    \* per gc goroutine: hist as it was when its pass began
    passes   \* number of passes begun since the last call of gc.Start

vars == <<fs, clock, invoke, gc, resp, hist, snap, passes>>

----------------------------------------------------------------------------
(* Bounds *)

\* The clock takes the values 0..MaxClock.
MaxClock == 1

----------------------------------------------------------------------------
(* Paths *)

tombstone == ".restfs-deleted"

Sep == "/"

\* c.dir, the data directory itself
Root == <<>>

D   == <<"d">>
DB  == <<"d", Sep, "b">>
DE  == <<"d", Sep, "e">>
DEC == <<"d", Sep, "e", Sep, "c">>

\* The directories and the objects of the tree the requests address.
Dirs   == {Root, D, DE}
Leaves == {DB, DEC}

\* Every path that can hold an entry: the above, the leaves' tombstones and a
\* tombstone named after the directory d/e.
Paths == Dirs \cup Leaves \cup {Append(p, tombstone) : p \in Leaves \cup {DE}}

\* The paths a request names (never one that carries the tombstone suffix).
ReqPaths == Dirs \cup Leaves

\* Request bodies.
Data == {<<1>>, <<2, 2>>}

HasSuffix(name, suffix) == Len(name) > 0 /\ name[Len(name)] = suffix

\* name[:len(name)-len(tombstone)]
TrimSuffix(name) == SubSeq(name, 1, Len(name) - 1)

LastSep(p) ==
    LET S == {i \in 1..Len(p) : p[i] = Sep}
    IN  IF S = {} THEN 0 ELSE CHOOSE i \in S : \A j \in S : j <= i

\* path.Split / filepath.Dir and filepath.Base
DirOf(p)  == IF LastSep(p) = 0 THEN Root ELSE SubSeq(p, 1, LastSep(p) - 1)
BaseOf(p) == SubSeq(p, LastSep(p) + 1, Len(p))

\* filepath.Join(dir, name)
Join(dir, name) == IF dir = Root THEN name ELSE dir \o <<Sep>> \o name

\* Byte order of the tokens: '.' sorts before the letters.
TokRank(t) ==
    CASE t = tombstone -> 0
      [] t = "b" -> 1
      [] t = "c" -> 2
      [] t = "d" -> 3
      [] t = "e" -> 4
      [] OTHER -> 5

\* String order of two names: a proper prefix sorts first.
RECURSIVE NameLess(_, _)
NameLess(a, b) ==
    IF a = <<>> THEN b # <<>>
    ELSE IF b = <<>> THEN FALSE
    ELSE IF a[1] # b[1] THEN TokRank(a[1]) < TokRank(b[1])
    ELSE NameLess(Tail(a), Tail(b))

\* sort.Strings of a set of names
RECURSIVE SortNames(_)
SortNames(S) ==
    IF S = {} THEN <<>>
    ELSE LET m == CHOOSE x \in S : \A y \in S \ {x} : NameLess(x, y)
         IN  <<m>> \o SortNames(S \ {m})

----------------------------------------------------------------------------
(* The filesystem *)

NoEnt == [kind |-> "none", mtime |-> 0, data |-> <<>>]

File(t, d) == [kind |-> "file", mtime |-> t, data |-> d]

\* A directory.  Its modification time is not kept: the code reads one only
\* for a directory that has a tombstone, and remove is never called on a
\* directory.
Dir == [kind |-> "dir", mtime |-> 0, data |-> <<>>]

\* os.Stat: the entry at p, NoEnt standing for the error IsNotExist.
Stat(f, p) == IF p \in DOMAIN f THEN f[p] ELSE NoEnt

\* open(O_CREATE|O_TRUNC) followed by writing d: the file holds d, mtime now.
Create(f, p, d, now) == [f EXCEPT ![p] = File(now, d)]

\* unlink / rmdir of an existing entry
Unlink(f, p) == [f EXCEPT ![p] = NoEnt]

\* The names in directory dir, sorted (ioutil.ReadDir, Walk's readDirNames).
ReadDirNames(f, dir) ==
    SortNames({BaseOf(q) : q \in {x \in DOMAIN f :
                   x # Root /\ f[x].kind # "none" /\ DirOf(x) = dir}})

\* time.Time.After
After(t, u) == t > u

----------------------------------------------------------------------------
(* The request handlers *)

\* The nil os.FileInfo
Nil == [kind |-> "nil", mtime |-> 0, data |-> <<>>]

\* stat with "not before" in place of "after"
stat_NotBefore(f, fullpath) ==
    LET astat == Stat(f, fullpath)
        bstat == Stat(f, Append(fullpath, tombstone))
    IN  IF astat.kind = "none" THEN Nil
        ELSE IF astat.kind = "dir" THEN astat
        ELSE IF bstat.kind = "none" THEN astat
        ELSE IF astat.mtime >= bstat.mtime THEN astat
        ELSE Nil

\* stat: the object's FileInfo when the object can be served, nil otherwise.
stat(f, fullpath) ==
    LET astat == Stat(f, fullpath)
        bstat == Stat(f, Append(fullpath, tombstone))
    IN  IF astat.kind = "none" THEN Nil
        ELSE IF astat.kind = "dir" THEN astat
        ELSE IF bstat.kind = "none" THEN astat
        ELSE IF After(astat.mtime, bstat.mtime) THEN astat
        ELSE Nil

\* serveFileList that tests the tombstone before fi.IsDir()
serveFileList_TombFirst(f, s) ==
    LET fis == ReadDirNames(f, s)
        tombstones == {TrimSuffix(fis[i]) :
                          i \in {j \in 1..Len(fis) : HasSuffix(fis[j], tombstone)}}
        Listed(name) ==
            LET fi == Stat(f, Join(s, name))
                ts == Stat(f, Join(s, Append(name, tombstone)))
            IN  /\ ~HasSuffix(name, tombstone)
                /\ ~(name \in tombstones /\ ~After(fi.mtime, ts.mtime))
        Line(name) == IF f[Join(s, name)].kind = "dir" THEN Append(name, Sep) ELSE name
    IN  [i \in 1..Len(SelectSeq(fis, Listed)) |-> Line(SelectSeq(fis, Listed)[i])]

\* serveFileList with "not before" in place of "after"
serveFileList_NotBefore(f, s) ==
    LET fis == ReadDirNames(f, s)
        tombstones == {TrimSuffix(fis[i]) :
                          i \in {j \in 1..Len(fis) : HasSuffix(fis[j], tombstone)}}
        Listed(name) ==
            LET fi == Stat(f, Join(s, name))
                ts == Stat(f, Join(s, Append(name, tombstone)))
            IN  /\ ~HasSuffix(name, tombstone)
                /\ \/ fi.kind = "dir"
                   \/ ~(name \in tombstones /\ fi.mtime < ts.mtime)
        Line(name) == IF f[Join(s, name)].kind = "dir" THEN Append(name, Sep) ELSE name
    IN  [i \in 1..Len(SelectSeq(fis, Listed)) |-> Line(SelectSeq(fis, Listed)[i])]

\* serveFileList: the lines written for directory s, in ReadDir's order.
serveFileList(f, s) ==
    LET fis == ReadDirNames(f, s)
        tombstones == {TrimSuffix(fis[i]) :
                          i \in {j \in 1..Len(fis) : HasSuffix(fis[j], tombstone)}}
        Listed(name) ==
            LET fi == Stat(f, Join(s, name))
                ts == Stat(f, Join(s, Append(name, tombstone)))
            IN  /\ ~HasSuffix(name, tombstone)
                /\ \/ fi.kind = "dir"
                   \/ ~(name \in tombstones /\ ~After(fi.mtime, ts.mtime))
        Line(name) == IF f[Join(s, name)].kind = "dir" THEN Append(name, Sep) ELSE name
    IN  [i \in 1..Len(SelectSeq(fis, Listed)) |-> Line(SelectSeq(fis, Listed)[i])]

\* os.MkdirAll: [err, fs]
RECURSIVE MkdirAll(_, _)
MkdirAll(f, dir) ==
    LET st == Stat(f, dir)
    IN  IF st.kind = "dir" THEN [err |-> FALSE, fs |-> f]
        ELSE IF st.kind = "file" \/ dir \notin DOMAIN f THEN [err |-> TRUE, fs |-> f]
        ELSE LET up == MkdirAll(f, DirOf(dir))
             IN  IF up.err THEN up
                 ELSE [err |-> FALSE, fs |-> [up.fs EXCEPT ![dir] = Dir]]

\* saveFile that removes the path's tombstone after the write
saveFile_ClearsTombstone(f, fullpath, body, now) ==
    LET made == MkdirAll(f, DirOf(fullpath))
    IN  IF made.err THEN made
        ELSE IF made.fs[fullpath].kind = "dir" THEN [err |-> TRUE, fs |-> made.fs]
        ELSE [err |-> FALSE,
              fs |-> Unlink(Create(made.fs, fullpath, body, now),
                            Append(fullpath, tombstone))]

\* restfs.saveFile: [err, fs]
saveFile(f, fullpath, body, now) ==
    LET made == MkdirAll(f, DirOf(fullpath))
    IN  IF made.err THEN made
        ELSE IF made.fs[fullpath].kind = "dir" THEN [err |-> TRUE, fs |-> made.fs]
        ELSE [err |-> FALSE, fs |-> Create(made.fs, fullpath, body, now)]

\* remove that unlinks the object as well
remove_Hard(f, fullpath, now) ==
    Unlink(Create(f, Append(fullpath, tombstone), <<>>, now), fullpath)

\* restfs.remove: os.Create of the tombstone (created, or truncated and re-dated)
remove(f, fullpath, now) == Create(f, Append(fullpath, tombstone), <<>>, now)

\* The paths filepath.Walk visits from root, in its order: a directory, then
\* its entries by sorted name, each with its own subtree.
RECURSIVE WalkSeq(_, _)
RECURSIVE WalkNames(_, _, _)
WalkSeq(f, root) ==
    IF f[root].kind = "dir"
    THEN <<root>> \o WalkNames(f, root, ReadDirNames(f, root))
    ELSE <<root>>
WalkNames(f, dir, names) ==
    IF names = <<>> THEN <<>>
    ELSE WalkSeq(f, Join(dir, Head(names))) \o WalkNames(f, dir, Tail(names))

\* restfs.removeAll: the walk callback applied along the walk.  The callback
\* only creates tombstones, which it skips itself, so the entries the walk
\* meets are those present when it starts.
RECURSIVE removeEach(_, _, _)
removeEach(f, names, now) ==
    IF names = <<>> THEN f
    ELSE LET name == Head(names)
         IN  IF f[name].kind = "dir" \/ HasSuffix(name, tombstone)
             THEN removeEach(f, Tail(names), now)
             ELSE removeEach(remove(f, name, now), Tail(names), now)

\* removeAll that does not descend into the subdirectories
removeAll_Shallow(f, fullpath, now) ==
    LET names == ReadDirNames(f, fullpath)
    IN  removeEach(f, [i \in 1..Len(names) |-> Join(fullpath, names[i])], now)

removeAll(f, fullpath, now) == removeEach(f, WalkSeq(f, fullpath), now)

NoResp ==
    [method |-> "", path |-> Root, recursive |-> FALSE, data |-> <<>>,
     status |-> 0, body |-> <<>>, seen |-> FALSE]

Response(method, path, recursive, data, status, body, seen) ==
    [method |-> method, path |-> path, recursive |-> recursive, data |-> data,
     status |-> status, body |-> body, seen |-> seen]

\* ServeHTTP, case "GET": [status, body]
ServeGET(f, fullpath) ==
    LET s == stat(f, fullpath)
    IN  IF s = Nil THEN [status |-> 404, body |-> <<"Not Found">>]
        ELSE IF s.kind = "dir"
        THEN [status |-> 200, body |-> serveFileList(f, fullpath)]
        ELSE [status |-> 200, body |-> f[fullpath].data]

\* ServeHTTP, case "PUT": [status, body, fs].  fi is nil when os.Stat fails,
\* and fi.IsDir() then panics; the panic is recovered into a 500.
ServePUT(f, fullpath, body, now) ==
    LET fi == Stat(f, fullpath)
        saved == saveFile(f, fullpath, body, now)
    IN  IF fi.kind = "none"
        THEN [status |-> 500, body |-> <<"panic">>, fs |-> f]
        ELSE IF fi.kind = "dir"
        THEN [status |-> 400, body |-> <<"Cannot overwrite directory">>, fs |-> f]
        ELSE IF saved.err
        THEN [status |-> 500, body |-> <<"error">>, fs |-> saved.fs]
        ELSE [status |-> 200, body |-> <<>>, fs |-> saved.fs]

\* ServeHTTP, case "DELETE", without the test of the recursive parameter
ServeDELETE_NoFlag(f, fullpath, recursive, now) ==
    LET fi == Stat(f, fullpath)
    IN  IF fi.kind = "none" THEN [status |-> 200, body |-> <<>>, fs |-> f]
        ELSE IF fi.kind = "dir"
        THEN [status |-> 200, body |-> <<>>, fs |-> removeAll(f, fullpath, now)]
        ELSE [status |-> 200, body |-> <<>>, fs |-> remove(f, fullpath, now)]

\* ServeHTTP, case "DELETE": [status, body, fs]
ServeDELETE(f, fullpath, recursive, now) ==
    LET fi == Stat(f, fullpath)
    IN  IF fi.kind = "none" THEN [status |-> 200, body |-> <<>>, fs |-> f]
        ELSE IF fi.kind = "dir"
        THEN IF recursive
             THEN [status |-> 200, body |-> <<>>, fs |-> removeAll(f, fullpath, now)]
             ELSE [status |-> 400,
                   body |-> <<"Cannot remove directory; forgot recursive=true?">>,
                   fs |-> f]
        ELSE [status |-> 200, body |-> <<>>, fs |-> remove(f, fullpath, now)]

\* hist[p] for a leaf p
HNone == [h |-> "none", d |-> <<>>]
HDeleted == [h |-> "deleted", d |-> <<>>]
HRewritten(d) == [h |-> "rewritten", d |-> d]

\* The leaves at or under path p
Under(p) ==
    {q \in Leaves : \/ q = p
                    \/ p = Root
                    \/ Len(q) > Len(p) /\ SubSeq(q, 1, Len(p) + 1) = Append(p, Sep)}

\* A GET request; resp records the response.
GET(p) ==
    \E r \in {ServeGET(fs, p)} :
        /\ resp' = Response("GET", p, FALSE, <<>>, r.status, r.body, stat(fs, p) # Nil)
        /\ UNCHANGED <<fs, clock, invoke, gc, hist, snap, passes>>

\* What a PUT request that ends as r does to the tree.
PutFS(p, d, r) ==
    LET ok == r.status = 200
    IN  /\ fs' = r.fs
        /\ hist' = IF ok /\ hist[p].h # "none"
                   THEN [hist EXCEPT ![p] = HRewritten(d)] ELSE hist
        /\ snap' = IF ok THEN [w \in DOMAIN snap |-> [snap[w] EXCEPT ![p] = HNone]]
                   ELSE snap
        /\ UNCHANGED <<clock, invoke, gc, passes>>

\* A PUT request; resp records the response.
PUT(p, d) ==
    \E r \in {ServePUT(fs, p, d, clock)} :
        /\ PutFS(p, d, r)
        /\ resp' = Response("PUT", p, FALSE, d, r.status, r.body, stat(fs, p) # Nil)

\* What a DELETE request that ends as r does to the tree.
DeleteFS(p, recursive, r) ==
    LET hit == IF r.status = 200 /\ fs[p].kind # "none" THEN Under(p) ELSE {}
        Mark(hh, q) ==
            IF q \notin hit THEN hh[q]
            ELSE IF q = p THEN HDeleted
            ELSE IF hh[q].h = "rewritten" THEN HNone ELSE hh[q]
        Drop(hh, q) ==
            IF q \in hit /\ hh[q].h = "rewritten" THEN HNone ELSE hh[q]
    IN  /\ fs' = r.fs
        /\ hist' = [q \in Leaves |-> Mark(hist, q)]
        /\ snap' = [w \in DOMAIN snap |-> [q \in Leaves |-> Drop(snap[w], q)]]
        /\ UNCHANGED <<clock, invoke, gc, passes>>

\* A DELETE request; resp records the response.
DELETE(p, recursive) ==
    \E r \in {ServeDELETE(fs, p, recursive, clock)} :
        /\ DeleteFS(p, recursive, r)
        /\ resp' = Response("DELETE", p, recursive, <<>>, r.status, r.body,
                            stat(fs, p) # Nil)

\* The requests without a record of the response.
PutQuiet(p, d) ==
    \E r \in {ServePUT(fs, p, d, clock)} : PutFS(p, d, r) /\ resp' = NoResp

DeleteQuiet(p, recursive) ==
    \E r \in {ServeDELETE(fs, p, recursive, clock)} :
        DeleteFS(p, recursive, r) /\ resp' = NoResp

\* The filesystem clock advances.
Tick ==
    /\ clock < MaxClock
    /\ clock' = clock + 1
    /\ resp' = NoResp
    /\ UNCHANGED <<fs, invoke, gc, hist, snap, passes>>

----------------------------------------------------------------------------
(* The garbage collector *)

\* Two goroutines running gc.loop
GCWorkers_Two == {1, 2}

\* newGC starts one goroutine running gc.loop.
GCWorkers == {1}

\* A channel that buffers two signals
InvokeCap_Two == 1 + 1

\* make(chan struct{}, 1)
InvokeCap == 1

Idle(outcome) ==
    [pc |-> "idle", stack |-> <<>>, name |-> Root, tmtime |-> 0, outcome |-> outcome]

\* Walk goes on after an entry: directories whose names are used up are left,
\* and when none is open the pass has finished without error.
RECURSIVE Unwind(_)
Unwind(stack) ==
    IF stack = <<>> THEN <<>>
    ELSE IF stack[Len(stack)].names = <<>> THEN Unwind(SubSeq(stack, 1, Len(stack) - 1))
    ELSE stack

Walking(stack) ==
    IF Unwind(stack) = <<>> THEN Idle("finished")
    ELSE [pc |-> "walk", stack |-> Unwind(stack), name |-> Root, tmtime |-> 0,
          outcome |-> "running"]

\* The stack with the first name of its top directory taken.
Taken(stack) ==
    [stack EXCEPT ![Len(stack)] = [dir |-> @.dir, names |-> Tail(@.names)]]

\* hist once GC has removed the object or the tombstone of a leaf
Settled(hh, path) ==
    LET q == IF HasSuffix(path, tombstone) THEN TrimSuffix(path) ELSE path
    IN  IF q \in Leaves THEN [hh EXCEPT ![q] = HNone] ELSE hh

\* gc.Start that sends nothing while a pass is in progress
StartSend_DropWhenRunning ==
    /\ invoke' = IF invoke < InvokeCap /\ \A w \in DOMAIN gc : gc[w].pc = "idle"
                 THEN invoke + 1 ELSE invoke
    /\ passes' = 0
    /\ UNCHANGED <<fs, clock, gc, hist, snap>>

\* gc.Start: a non-blocking send on g.invoke, dropped when the buffer is full
StartSend ==
    /\ invoke' = IF invoke < InvokeCap THEN invoke + 1 ELSE invoke
    /\ passes' = 0
    /\ UNCHANGED <<fs, clock, gc, hist, snap>>

\* A call of gc.Start; resp records which branch of the select it took.
Start ==
    /\ StartSend
    /\ resp' = Response("Start", Root, FALSE, <<>>, 0,
                        IF invoke < InvokeCap THEN <<"sent">> ELSE <<"default">>,
                        FALSE)

\* gc.loop receives a signal and filepath.Walk opens g.dir.
GCBegin(w) ==
    /\ gc[w].pc = "idle"
    /\ invoke > 0
    /\ invoke' = invoke - 1
    /\ gc' = [gc EXCEPT ![w] =
                 Walking(<<[dir |-> Root, names |-> ReadDirNames(fs, Root)]>>)]
    /\ snap' = [snap EXCEPT ![w] = hist]
    /\ passes' = passes + 1
    /\ resp' = NoResp
    /\ UNCHANGED <<fs, clock, hist>>

\* Walk takes the next name of the directory it is in, lstats it and calls the
\* callback, up to the callback's os.Stat.
GCWalk(w, fail) ==
    LET g    == gc[w]
        top  == g.stack[Len(g.stack)]
        name == Join(top.dir, Head(top.names))
        info == Stat(fs, name)
        rest == Taken(g.stack)
    IN  /\ g.pc = "walk"
        /\ gc' = [gc EXCEPT ![w] =
               IF fail \/ info.kind = "none" THEN Idle("aborted")
               ELSE IF info.kind = "dir"
               THEN Walking(Append(rest, [dir |-> name,
                                          names |-> ReadDirNames(fs, name)]))
               ELSE IF ~HasSuffix(name, tombstone) THEN Walking(rest)
               ELSE [pc |-> "stat", stack |-> rest, name |-> name,
                     tmtime |-> info.mtime, outcome |-> "running"]]
        /\ resp' = NoResp
        /\ UNCHANGED <<fs, clock, invoke, hist, snap, passes>>

\* The callback without the removal of the object
GCStat_KeepObject(w, fail) ==
    /\ gc[w].pc = "stat"
    /\ gc' = [gc EXCEPT ![w] =
           IF fail THEN Idle("aborted") ELSE [gc[w] EXCEPT !.pc = "rmtomb"]]
    /\ resp' = NoResp
    /\ UNCHANGED <<fs, clock, invoke, hist, snap, passes>>

\* The callback removing the object only when it is strictly older
GCStat_StrictlyOlder(w, fail) ==
    LET g     == gc[w]
        fname == TrimSuffix(g.name)
        fstat == Stat(fs, fname)
    IN  /\ g.pc = "stat"
        /\ gc' = [gc EXCEPT ![w] =
               IF fail THEN Idle("aborted")
               ELSE IF fstat.kind # "none" /\ fstat.mtime < g.tmtime
               THEN [g EXCEPT !.pc = "rmfile"]
               ELSE [g EXCEPT !.pc = "rmtomb"]]
        /\ resp' = NoResp
        /\ UNCHANGED <<fs, clock, invoke, hist, snap, passes>>

\* The callback's os.Stat(fname) and the comparison of the two times.
GCStat(w, fail) ==
    LET g     == gc[w]
        fname == TrimSuffix(g.name)
        fstat == Stat(fs, fname)
    IN  /\ g.pc = "stat"
        /\ gc' = [gc EXCEPT ![w] =
               IF fail THEN Idle("aborted")
               ELSE IF fstat.kind # "none" /\ ~After(fstat.mtime, g.tmtime)
               THEN [g EXCEPT !.pc = "rmfile"]
               ELSE [g EXCEPT !.pc = "rmtomb"]]
        /\ resp' = NoResp
        /\ UNCHANGED <<fs, clock, invoke, hist, snap, passes>>

\* The loop's remove: os.Remove, where "does not exist" is no error.  A
\* directory that is not empty cannot be removed.
osRemove(f, s, fail) ==
    LET st == Stat(f, s)
    IN  IF st.kind = "none" THEN [err |-> FALSE, fs |-> f]
        ELSE IF fail \/ (st.kind = "dir" /\ ReadDirNames(f, s) # <<>>)
        THEN [err |-> TRUE, fs |-> f]
        ELSE [err |-> FALSE, fs |-> Unlink(f, s)]

\* The callback removing the tombstone first and the object after it
GCRemoveFile_TombFirst(w, fail) ==
    LET g     == gc[w]
        fname == TrimSuffix(g.name)
    IN  /\ g.pc = "rmfile"
        /\ \E r \in {osRemove(fs, g.name, fail)} :
               /\ fs' = r.fs
               /\ gc' = [gc EXCEPT ![w] =
                      IF r.err THEN Idle("aborted")
                      ELSE [g EXCEPT !.pc = "rmtomb", !.name = fname]]
               /\ hist' = IF fs' # fs THEN Settled(hist, fname) ELSE hist
               /\ resp' = NoResp
               /\ UNCHANGED <<clock, invoke, snap, passes>>

\* remove(fname) whose error is dropped
GCRemoveFile_IgnoreError(w, fail) ==
    LET g     == gc[w]
        fname == TrimSuffix(g.name)
    IN  /\ g.pc = "rmfile"
        /\ \E r \in {osRemove(fs, fname, fail)} :
               /\ fs' = r.fs
               /\ gc' = [gc EXCEPT ![w] = [g EXCEPT !.pc = "rmtomb"]]
               /\ hist' = IF fs' # fs THEN Settled(hist, fname) ELSE hist
               /\ resp' = NoResp
               /\ UNCHANGED <<clock, invoke, snap, passes>>

\* remove(fname)
GCRemoveFile(w, fail) ==
    LET g     == gc[w]
        fname == TrimSuffix(g.name)
    IN  /\ g.pc = "rmfile"
        /\ \E r \in {osRemove(fs, fname, fail)} :
               /\ fs' = r.fs
               /\ gc' = [gc EXCEPT ![w] =
                      IF r.err THEN Idle("aborted") ELSE [g EXCEPT !.pc = "rmtomb"]]
               /\ hist' = IF fs' # fs THEN Settled(hist, fname) ELSE hist
               /\ resp' = NoResp
               /\ UNCHANGED <<clock, invoke, snap, passes>>

\* remove(name), the callback's result
GCRemoveTomb(w, fail) ==
    LET g == gc[w]
    IN  /\ g.pc = "rmtomb"
        /\ \E r \in {osRemove(fs, g.name, fail)} :
               /\ fs' = r.fs
               /\ gc' = [gc EXCEPT ![w] =
                      IF r.err THEN Idle("aborted") ELSE Walking(g.stack)]
               /\ hist' = IF fs' # fs THEN Settled(hist, g.name) ELSE hist
               /\ resp' = NoResp
               /\ UNCHANGED <<clock, invoke, snap, passes>>

----------------------------------------------------------------------------
(* The specification *)

\* What a leaf and its tombstone can be when the server starts: the leaf
\* missing or a file written at time 0 and no tombstone (Fresh); a tombstone
\* whose object is gone (Orphan) or still there (Pending), left by an earlier
\* run.
Fresh == {<<e, NoEnt>> : e \in {NoEnt} \cup {File(0, d) : d \in Data}}

Orphan == {<<NoEnt, File(0, <<>>)>>}

Pending == {<<File(0, d), File(0, <<>>)>> : d \in Data}

\* The trees that hold the directories and, for each leaf, one of pairs.
Trees(pairs) ==
    {[p \in Paths |->
         IF p \in Dirs THEN Dir
         ELSE IF p \in Leaves THEN c[p][1]
         ELSE IF TrimSuffix(p) \in Leaves THEN c[TrimSuffix(p)][2]
         ELSE NoEnt] : c \in [Leaves -> pairs]}

\* The state once main has built the handler and the collector and has
\* called g.Start.
Boot(trees) ==
    /\ fs \in trees
    /\ clock = 0
    /\ invoke = 1
    /\ gc = [w \in GCWorkers |-> Idle("none")]
    /\ resp = NoResp
    /\ hist = [p \in Leaves |-> HNone]
    /\ snap = [w \in GCWorkers |-> [p \in Leaves |-> HNone]]
    /\ passes = 0

\* The server and its collector, started on a tree without tombstones.  The
\* responses are not recorded.
Init == Boot(Trees(Fresh))

Next ==
    \/ \E p \in ReqPaths, d \in Data : PutQuiet(p, d)
    \/ \E p \in ReqPaths, recursive \in BOOLEAN : DeleteQuiet(p, recursive)
    \/ Tick
    \/ StartSend /\ resp' = NoResp
    \/ \E w \in GCWorkers : GCBegin(w)
    \/ \E w \in GCWorkers, fail \in BOOLEAN : GCWalk(w, fail)
    \/ \E w \in GCWorkers, fail \in BOOLEAN : GCStat(w, fail)
    \/ \E w \in GCWorkers, fail \in BOOLEAN : GCRemoveFile(w, fail)
    \/ \E w \in GCWorkers, fail \in BOOLEAN : GCRemoveTomb(w, fail)

Spec == Init /\ [][Next]_vars

\* The request handlers alone, their responses recorded.
InitReq == Boot(Trees(Fresh \cup Orphan))

NextReq ==
    \/ \E p \in ReqPaths : GET(p)
    \/ \E p \in ReqPaths, d \in Data : PUT(p, d)
    \/ \E p \in ReqPaths, recursive \in BOOLEAN : DELETE(p, recursive)
    \/ Tick

SpecReq == InitReq /\ [][NextReq]_vars

\* The request handlers on a tree in which the name of directory d/e also
\* has a tombstone (the name was an object once; nothing in the handlers
\* removes such a file).
InitList ==
    Boot({[t EXCEPT ![Append(DE, tombstone)] = x] :
             t \in Trees(Fresh), x \in {NoEnt, File(0, <<>>)}})

SpecList == InitList /\ [][NextReq]_vars

\* The server and its collector when no request is served while a pass is
\* under way: the passes run without concurrent requests, on the trees the
\* requests between them leave.
NextSerial ==
    \/ /\ \A w \in GCWorkers : gc[w].pc = "idle"
       /\ \/ \E p \in ReqPaths, d \in Data : PutQuiet(p, d)
          \/ \E p \in ReqPaths, recursive \in BOOLEAN : DeleteQuiet(p, recursive)
    \/ Tick
    \/ StartSend /\ resp' = NoResp
    \/ \E w \in GCWorkers : GCBegin(w)
    \/ \E w \in GCWorkers, fail \in BOOLEAN : GCWalk(w, fail)
    \/ \E w \in GCWorkers, fail \in BOOLEAN : GCStat(w, fail)
    \/ \E w \in GCWorkers, fail \in BOOLEAN : GCRemoveFile(w, fail)
    \/ \E w \in GCWorkers, fail \in BOOLEAN : GCRemoveTomb(w, fail)

SpecSerial == Init /\ [][NextSerial]_vars

\* The collector and the callers of gc.Start alone (the signal handler and
\* the ticker of main), the outcome of each call recorded.
InitTrigger == Boot(Trees(Fresh \cup Orphan \cup Pending))

NextTrigger ==
    \/ Start
    \/ \E w \in GCWorkers : GCBegin(w)
    \/ \E w \in GCWorkers, fail \in BOOLEAN : GCWalk(w, fail)
    \/ \E w \in GCWorkers, fail \in BOOLEAN : GCStat(w, fail)
    \/ \E w \in GCWorkers, fail \in BOOLEAN : GCRemoveFile(w, fail)
    \/ \E w \in GCWorkers, fail \in BOOLEAN : GCRemoveTomb(w, fail)

SpecTrigger == InitTrigger /\ [][NextTrigger]_vars

\* The steps of the goroutine that runs gc.loop
GCStep ==
    \E w \in GCWorkers :
        \/ GCBegin(w)
        \/ \E fail \in BOOLEAN : GCWalk(w, fail)
        \/ \E fail \in BOOLEAN : GCStat(w, fail)
        \/ \E fail \in BOOLEAN : GCRemoveFile(w, fail)
        \/ \E fail \in BOOLEAN : GCRemoveTomb(w, fail)

\* The same, with the scheduler running the collector's goroutine whenever it
\* can take a step: it is not starved, and a pass it is in comes to its end.
SpecTriggerFair == SpecTrigger /\ WF_vars(GCStep)

----------------------------------------------------------------------------
(* The claims *)

Tomb(p) == Append(p, tombstone)

\* The visibility rule as the data model states it.
Visible(p) ==
    /\ fs[p].kind = "file"
    /\ \/ fs[Tomb(p)].kind = "none"
       \/ fs[p].mtime > fs[Tomb(p)].mtime

\* C1: a GET of a leaf path returns the object (200 and its bytes) iff a file
\* exists there and either it has no tombstone or it is strictly newer than
\* its tombstone; otherwise, equal times included, it returns 404.
C1_Visibility ==
    (resp.method = "GET" /\ resp.path \in Leaves) =>
        IF Visible(resp.path)
        THEN resp.status = 200 /\ resp.body = fs[resp.path].data
        ELSE resp.status = 404

\* A GET of an object as old as its tombstone answered 404.
C1_Witness ==
    /\ resp.method = "GET" /\ resp.path \in Leaves
    /\ fs[resp.path].kind = "file"
    /\ fs[Tomb(resp.path)].kind = "file"
    /\ fs[resp.path].mtime = fs[Tomb(resp.path)].mtime
    /\ resp.status = 404

\* C2: after a PUT of d to p has answered 200, a GET of p answers 200 with
\* exactly d, whatever p was before.
C2_RoundTrip ==
    (resp.method = "PUT" /\ resp.status = 200) =>
        /\ ServeGET(fs, resp.path).status = 200
        /\ ServeGET(fs, resp.path).body = resp.data

\* C3: a DELETE (not recursive) of a visible leaf answers 200; a GET of the
\* leaf then answers 404, the object file is still there exactly as it was,
\* and its tombstone exists.
C3_SoftDelete ==
    [][\A p \in Leaves :
          (/\ resp'.method = "DELETE" /\ resp'.path = p
           /\ ~resp'.recursive /\ resp'.seen) =>
              /\ resp'.status = 200
              /\ ServeGET(fs', p).status = 404
              /\ fs[p].kind = "file" /\ fs'[p] = fs[p]
              /\ fs'[Tomb(p)].kind = "file"]_vars

\* A visible leaf has just been deleted.
C3_Witness ==
    /\ resp.method = "DELETE" /\ resp.path \in Leaves
    /\ ~resp.recursive /\ resp.seen /\ resp.status = 200
    /\ fs[resp.path].kind = "file"
    /\ fs[Tomb(resp.path)].kind = "file"

\* C4: when a PUT of d2 to p answers 200 after a DELETE of p, the tombstone
\* still on disk, a GET of p answers 200 with d2.
C4_Resurrection ==
    (/\ resp.method = "PUT" /\ resp.status = 200 /\ resp.path \in Leaves
     /\ hist[resp.path] = HRewritten(resp.data)
     /\ fs[Tomb(resp.path)].kind = "file") =>
        /\ ServeGET(fs, resp.path).status = 200
        /\ ServeGET(fs, resp.path).body = resp.data

\* The pass of worker w has run to its end without error.
Finished(g) == g.pc = "idle" /\ g.outcome = "finished"

\* C5: a pass that began after a DELETE of leaf p, no PUT to p since, and ran
\* to its end removes the object p and the tombstone of p; and it removes the
\* tombstone only once the object is gone.
C5_ConfirmedDeletion ==
    [][\A w \in DOMAIN gc : \A p \in Leaves :
          /\ (Finished(gc'[w]) /\ snap'[w][p].h = "deleted") =>
                 fs'[p].kind = "none" /\ fs'[Tomb(p)].kind = "none"
          /\ (/\ gc[w].pc # "idle" /\ snap[w][p].h = "deleted"
              /\ fs[Tomb(p)].kind = "file" /\ fs'[Tomb(p)].kind = "none") =>
                 fs[p].kind = "none"]_vars

\* A pass has finished that began with p deleted and not rewritten.
C5_Witness ==
    \E w \in DOMAIN gc : \E p \in Leaves :
        /\ Finished(gc[w]) /\ snap[w][p].h = "deleted"
        /\ fs[p].kind = "none" /\ fs[Tomb(p)].kind = "none"

\* C6: a pass that began after a DELETE of leaf p and then a PUT of d2 to p,
\* and ran to its end, removes the tombstone only: p is still a file and
\* holds d2.
C6_ResurrectionPurge ==
    \A w \in DOMAIN gc : \A p \in Leaves :
        (Finished(gc[w]) /\ snap[w][p].h = "rewritten") =>
            /\ fs[p].kind = "file" /\ fs[p].data = snap[w][p].d
            /\ fs[Tomb(p)].kind = "none"

\* Some pass is in progress.
Running == \E w \in DOMAIN gc : gc[w].pc # "idle"

\* C7: the channel never holds more than one signal, a call of gc.Start can
\* always be made (it does not block), and after any call at most one pass
\* begins until the next call.
C7_Coalescing ==
    /\ invoke <= 1
    /\ passes <= 1
    /\ ENABLED Start

\* A call of gc.Start, made while a pass was in progress and a signal was
\* already pending, has been dropped.
C7_Witness ==
    /\ resp.method = "Start" /\ resp.body = <<"default">>
    /\ Running
    /\ invoke = 1

\* C8: at most one pass is in progress, whoever calls gc.Start.
C8_SingleWorker ==
    Cardinality({w \in DOMAIN gc : gc[w].pc # "idle"}) <= 1

\* A pass is about to remove an object while a further signal is pending.
C8_Witness ==
    /\ \E w \in DOMAIN gc : gc[w].pc = "rmfile"
    /\ invoke = 1

\* The entries directly in directory dir
ChildrenOf(dir) ==
    {q \in Paths : q # Root /\ DirOf(q) = dir /\ fs[q].kind # "none"}

\* The lines of a listing, as a set
Lines(body) == {body[i] : i \in 1..Len(body)}

\* C9: a recursive DELETE of a directory answers 200 and leaves, at every
\* depth under it, a tombstone of the current time for every entry that is
\* neither a directory nor a tombstone; the listing of the directory then
\* names its subdirectories, each with a trailing separator, and none of its
\* objects.
C9_RecursiveDelete ==
    (resp.method = "DELETE" /\ resp.recursive /\ resp.path \in Dirs) =>
        /\ resp.status = 200
        /\ \A q \in Under(resp.path) :
              fs[q].kind = "file" => fs[Tomb(q)] = File(clock, <<>>)
        /\ Lines(serveFileList(fs, resp.path)) =
              {Append(BaseOf(q), Sep) :
                  q \in {x \in ChildrenOf(resp.path) : fs[x].kind = "dir"}}

\* Directory d, holding object b and subdirectory e with object c, has just
\* been deleted recursively.
C9_Witness ==
    /\ resp.method = "DELETE" /\ resp.recursive /\ resp.path = D
    /\ resp.status = 200
    /\ fs[DB].kind = "file" /\ fs[DEC].kind = "file"
    /\ serveFileList(fs, D) = <<Append(<<"e">>, Sep)>>

\* C10: a DELETE of a directory without recursive=true answers 400 and
\* changes nothing: the tree is the same, and so is every GET.
C10_DirectoryDelete ==
    [][(resp'.method = "DELETE" /\ resp'.path \in Dirs /\ ~resp'.recursive) =>
          /\ resp'.status = 400
          /\ fs' = fs
          /\ \A q \in ReqPaths :
                /\ ServeGET(fs', q).status = ServeGET(fs, q).status
                /\ ServeGET(fs', q).body = ServeGET(fs, q).body]_vars

\* A directory that holds a visible object has been refused.
C10_Witness ==
    /\ resp.method = "DELETE" /\ resp.path = D /\ ~resp.recursive
    /\ resp.status = 400
    /\ Visible(DB)
    /\ serveFileList(fs, D) = <<<<"b">>, Append(<<"e">>, Sep)>>

\* The lines the listing of dir is to hold: a subdirectory's name with the
\* separator; a file's name when it has no tombstone or is strictly newer
\* than it; nothing for a tombstone.
ExpectedLines(dir) ==
    {IF fs[q].kind = "dir" THEN Append(BaseOf(q), Sep) ELSE BaseOf(q) :
        q \in {x \in ChildrenOf(dir) :
                  /\ ~HasSuffix(x, tombstone)
                  /\ \/ fs[x].kind = "dir"
                     \/ Stat(fs, Tomb(x)).kind = "none"
                     \/ fs[x].mtime > Stat(fs, Tomb(x)).mtime}}

\* C11: a GET of a directory answers 200 with one line per entry that is to
\* be listed and no other line: no tombstone, every subdirectory (with the
\* separator, a tombstone of its name or not), and a file iff it has no
\* tombstone or is strictly newer than its tombstone.
C11_ListingOverlay ==
    (resp.method = "GET" /\ resp.path \in Dirs) =>
        /\ resp.status = 200
        /\ Lines(resp.body) = ExpectedLines(resp.path)
        /\ Len(resp.body) = Cardinality(ExpectedLines(resp.path))

\* Directory d listed with b as old as its tombstone and with a tombstone
\* named after subdirectory e: the listing is e/ alone.
C11_Witness ==
    /\ resp.method = "GET" /\ resp.path = D
    /\ fs[DB].kind = "file" /\ fs[Tomb(DB)].kind = "file"
    /\ fs[DB].mtime = fs[Tomb(DB)].mtime
    /\ fs[Tomb(DE)].kind = "file"
    /\ resp.body = <<Append(<<"e">>, Sep)>>

\* C12: a PUT on an existing directory answers 400 and changes nothing; any
\* other PUT, nothing at the path before it included, answers 200 and leaves
\* the object with the request's bytes below existing parent directories.
C12_PutOutcomes ==
    [][resp'.method = "PUT" =>
          IF fs[resp'.path].kind = "dir"
          THEN resp'.status = 400 /\ fs' = fs
          ELSE /\ resp'.status = 200
               /\ fs'[resp'.path] = File(clock, resp'.data)
               /\ fs'[DirOf(resp'.path)].kind = "dir"]_vars

\* C13: a tombstone that is there before a step and gone after it was
\* removed by the collector's remove(name).  A request (a step that changes
\* the tree and is not the collector's) leaves every tombstone in place, and
\* when it is a DELETE (it writes a tombstone) it leaves every object file as
\* it was.
C13_TombstoneLifecycle ==
    [][/\ \A p \in Leaves :
              (fs[Tomb(p)].kind = "file" /\ fs'[Tomb(p)].kind = "none") =>
                  \E w \in GCWorkers : /\ gc[w].pc = "rmtomb"
                                       /\ gc[w].name = Tomb(p)
                                       /\ gc'[w] # gc[w]
       /\ (gc' = gc /\ fs' # fs) =>
              /\ \A p \in Leaves :
                     fs[Tomb(p)].kind = "file" => fs'[Tomb(p)].kind = "file"
              /\ (\E p \in Leaves : fs'[Tomb(p)] # fs[Tomb(p)]) =>
                     \A p \in Leaves : fs'[p] = fs[p]]_vars

\* The collector has removed the tombstone of d/b and is still in its pass,
\* while d/e/c, deleted and then rewritten, keeps its tombstone.
C13_Witness ==
    /\ \E w \in GCWorkers : gc[w].pc # "idle" /\ snap[w][DB].h = "deleted"
    /\ fs[Tomb(DB)].kind = "none"
    /\ hist[DEC].h = "rewritten"
    /\ fs[DEC].kind = "file" /\ fs[Tomb(DEC)].kind = "file"

\* C14: in a pass without concurrent requests every removal is one of the
\* three resolutions: a tombstone goes only when its object is gone (orphan
\* purge, or the end of a confirmed deletion) or is strictly newer
\* (resurrection purge, the object stays); an object goes only when its
\* tombstone is there and the object is not newer (confirmed deletion).  When
\* the pass ends without error no tombstone is left, and a path that was
\* deleted and not rewritten at the start has lost both files.
C14_CompleteResolution ==
    [][/\ \A p \in Leaves :
              (fs[Tomb(p)].kind = "file" /\ fs'[Tomb(p)].kind = "none") =>
                  /\ fs'[p] = fs[p]
                  /\ fs[p].kind = "none" \/ fs[p].mtime > fs[Tomb(p)].mtime
       /\ \A p \in Leaves :
              (fs[p].kind = "file" /\ fs'[p].kind = "none") =>
                  /\ fs[Tomb(p)].kind = "file"
                  /\ fs[p].mtime <= fs[Tomb(p)].mtime
       /\ \A w \in GCWorkers :
              (gc[w].pc # "idle" /\ Finished(gc'[w])) =>
                  \A p \in Leaves :
                      /\ fs'[Tomb(p)].kind = "none"
                      /\ snap[w][p].h = "deleted" => fs'[p].kind = "none"]_vars

\* A pass has ended without error: d/b, deleted at its start, is gone with its
\* tombstone; d/e/c, deleted and rewritten later, is there without tombstone.
C14_Witness ==
    /\ \E w \in GCWorkers :
           /\ Finished(gc[w])
           /\ snap[w][DB].h = "deleted"
           /\ snap[w][DEC].h = "rewritten"
    /\ fs[DB].kind = "none" /\ fs[DEC].kind = "file"
    /\ \A p \in Leaves : fs[Tomb(p)].kind = "none"

\* C15: a pass that meets an error ends there and nothing else changes: the
\* worker is back at the receive, the tree and the pending signal are as they
\* were.  A worker at the receive takes the next signal and starts a pass at
\* the root over everything in it.  When remove(fname) leaves the object in
\* place (it failed), the pass is over and the tombstone is as it was.
C15_FailureIsolation ==
    /\ [](\A w \in GCWorkers :
              (gc[w].pc = "idle" /\ invoke > 0) => ENABLED GCBegin(w))
    /\ [][\A w \in GCWorkers :
              /\ (gc[w].pc # "idle" /\ gc'[w].outcome = "aborted") =>
                     /\ gc'[w] = Idle("aborted")
                     /\ fs' = fs /\ invoke' = invoke /\ hist' = hist
              /\ (gc[w].pc = "idle" /\ gc'[w].pc # "idle") =>
                     /\ gc'[w].pc = "walk"
                     /\ gc'[w].stack =
                            <<[dir |-> Root, names |-> ReadDirNames(fs', Root)]>>
              /\ (/\ gc[w].pc = "rmfile"
                  /\ gc'[w] # gc[w]
                  /\ fs'[TrimSuffix(gc[w].name)].kind = "file") =>
                     /\ gc'[w] = Idle("aborted")
                     /\ fs'[gc[w].name] = fs[gc[w].name]]_vars

\* A pass was aborted: d/b and its tombstone, there when the pass began, are
\* both still there, the worker is at the receive and a signal is pending.
C15_Witness ==
    /\ \E w \in GCWorkers : gc[w] = Idle("aborted") /\ snap[w][DB].h = "deleted"
    /\ fs[DB].kind = "file" /\ fs[Tomb(DB)].kind = "file"
    /\ invoke = 1

\* C16: once a DELETE without recursion has succeeded on leaf p and no PUT
\* of p follows it, p stays invisible to GET and to the listing of its
\* directory, whatever steps the collector takes.  (hist[p] is "deleted" from
\* the DELETE until a PUT of p or the collector's first removal at p; after
\* a removal that leaves p invisible nothing can bring it back but a PUT.)
C16_DeleteDurable ==
    [][\A p \in Leaves :
           (hist[p].h = "deleted" /\ hist'[p].h # "rewritten") =>
               /\ ServeGET(fs', p).status = 404
               /\ BaseOf(p) \notin Lines(serveFileList(fs', DirOf(p)))]_vars

\* C17: the collector removes an object only if, at the moment of the
\* removal, the object's time is not later than its tombstone's (so that a
\* write that completed, with no delete after it, is never removed).
C17_WritesNotLost ==
    [][\A p \in Leaves :
           (fs[p].kind = "file" /\ fs'[p].kind = "none") =>
               /\ fs[Tomb(p)].kind = "file"
               /\ fs[p].mtime <= fs[Tomb(p)].mtime]_vars

\* C18: in a pass without concurrent requests no step of the collector
\* changes the answer to a GET of any path, file or directory listing: the
\* answers are the same in every intermediate state of the pass.
C18_GCInvisible ==
    [][gc' # gc => \A q \in ReqPaths : ServeGET(fs', q) = ServeGET(fs, q)]_vars

\* Midway through a confirmed deletion: the object d/b is removed, its
\* tombstone is not yet.
C18_Witness ==
    \E w \in GCWorkers :
        /\ gc[w].pc = "rmtomb" /\ gc[w].name = Tomb(DB)
        /\ snap[w][DB].h = "deleted"
        /\ fs[DB].kind = "none" /\ fs[Tomb(DB)].kind = "file"

\* C19: in every state, for every directory and every file in it that is
\* not a tombstone, the listing of the directory holds the file's name iff
\* GET of the file succeeds.
C19_ListReadAgreement ==
    \A dir \in Dirs :
        \A a \in {q \in ChildrenOf(dir) :
                     fs[q].kind = "file" /\ ~HasSuffix(q, tombstone)} :
            BaseOf(a) \in Lines(serveFileList(fs, dir))
                <=> ServeGET(fs, a).status = 200

\* The listing of d/e was just served without c, which is a file as old as
\* its tombstone, next to the listing of d that shows b, newer than its own.
C19_Witness ==
    /\ resp.method = "GET" /\ resp.path = DE /\ resp.body = <<>>
    /\ fs[DEC].kind = "file" /\ fs[Tomb(DEC)].kind = "file"
    /\ fs[DB].kind = "file" /\ fs[Tomb(DB)].kind = "file"
    /\ fs[DB].mtime > fs[Tomb(DB)].mtime
    /\ <<"b">> \in Lines(serveFileList(fs, D))

\* C20: every call of gc.Start, its signal sent or dropped, is followed by
\* the begin of a pass.  (passes is 0 from a call of gc.Start until the next
\* pass begins.)
C20_NoLostTrigger == (passes = 0) ~> (passes > 0)

\* gc.Start was called, and its signal dropped, while the collector was at
\* the callback's os.Stat: no pass has begun since that call.
C20_Witness ==
    /\ resp.method = "Start" /\ resp.body = <<"default">>
    /\ passes = 0
    /\ \E w \in GCWorkers : gc[w].pc = "stat"

====
